---- MODULE Spec2Model ----
(***************************************************************************)
(* Model of tools/web_parser_bs4.py: the whitespace-collapsing transform   *)
(* clean_text and the dispatcher extract_text.                             *)
(*                                                                         *)
(* Text is a sequence of one-character strings.  A call of extract_text is *)
(* one atomic step (the module is single-threaded and synchronous); its    *)
(* result is an outcome record: how the call ended ("return" or "raise"),  *)
(* the value returned or the error raised, and the collaborators           *)
(* (Fetcher, Extractor) the call invoked, in order.                        *)
(***************************************************************************)
EXTENDS Naturals, Sequences, FiniteSets

VARIABLES
    globals,    \* the module's global namespace (the only state that outlives a call)
    log,        \* history: one record per completed call of extract_text
    text,       \* clean_text: the argument
    cleaned,    \* clean_text: clean_text(text), once computed
    recleaned,  \* clean_text: clean_text(cleaned), once computed
    stage       \* clean_text: "idle" (not in use) | "input" | "cleaned" | "recleaned"

vars == <<globals, log, text, cleaned, recleaned, stage>>

\* ------------------------------------------------------------------ bounds

MaxCalls == 3
MaxLen == 4

\* ------------------------------------------------------- clean_text (7-12)

\* str.split() with no separator splits on runs of whitespace characters.
Whitespace == {" ", "\t", "\n", "\r", "\f"}

IsSpace(c) == c \in Whitespace

Chars == {"a", "b", " ", "\t", "\n"}

RECURSIVE lstrip(_)
\* str.split(): skip the whitespace before the next word.
lstrip(s) ==
    IF s = <<>> THEN <<>>
    ELSE IF IsSpace(Head(s)) THEN lstrip(Tail(s))
    ELSE s

RECURSIVE word(_)
\* str.split(): the characters of the word that starts s, up to the next whitespace.
word(s) ==
    IF s = <<>> THEN <<>>
    ELSE IF IsSpace(Head(s)) THEN <<>>
    ELSE <<Head(s)>> \o word(Tail(s))

RECURSIVE split_on_space(_)
\* text.split(' '): cut at every single space, keeping empty pieces.
split_on_space(s) ==
    IF \A i \in 1..Len(s) : s[i] # " " THEN <<s>>
    ELSE LET k == CHOOSE i \in 1..Len(s) :
                      s[i] = " " /\ \A j \in 1..(i - 1) : s[j] # " "
         IN  <<SubSeq(s, 1, k - 1)>> \o split_on_space(SubSeq(s, k + 1, Len(s)))

RECURSIVE split(_)
\* text.split(): the list of words of s, no empty strings.
split(s) ==
    LET r == lstrip(s)
    IN  IF r = <<>> THEN <<>>
        ELSE LET w == word(r)
             IN  <<w>> \o split(SubSeq(r, Len(w) + 1, Len(r)))

RECURSIVE join_nosep(_, _)
\* ''.join(words): the separator is lost.
join_nosep(sep, words) ==
    IF words = <<>> THEN <<>>
    ELSE Head(words) \o join_nosep(sep, Tail(words))

RECURSIVE join(_, _)
\* sep.join(words)
join(sep, words) ==
    IF words = <<>> THEN <<>>
    ELSE IF Len(words) = 1 THEN words[1]
    ELSE words[1] \o sep \o join(sep, Tail(words))

RECURSIVE replace_double(_)
\* text.replace('  ', ' '): one left-to-right pass over non-overlapping pairs.
replace_double(s) ==
    IF Len(s) < 2 THEN s
    ELSE IF s[1] = " " /\ s[2] = " " THEN <<" ">> \o replace_double(SubSeq(s, 3, Len(s)))
    ELSE <<s[1]>> \o replace_double(Tail(s))

\* return ' '.join(text.split())
clean_text(s) == join(<<" ">>, split(s))

\* ---------------------------------------------------- extract_text (16-24)

\* The names the module binds at load: its imports and its two functions.
ModuleNamespace == {"requests", "BeautifulSoup", "clean_text", "extract_text"}

DEFAULT_METHOD_bs4 == "bs4"

\* def extract_text(url, method="beautifulsoup")
DEFAULT_METHOD == "beautifulsoup"

Sentinel == "Unsupported extraction method specified."

Return(v) == [kind |-> "return", value |-> v, io |-> <<>>]

Raise(e) == [kind |-> "raise", value |-> e, io |-> <<>>]

\* LOAD_GLOBAL name; CALL: the name is looked up in the module's namespace
\* (then among the builtins, which hold no such name) when line 22 runs.
\* Nothing binds extract_text_bs4, so the lookup raises.
call_extract_text_bs4(url) ==
    CASE "extract_text_bs4" \notin globals -> Raise("NameError")

\* The dispatcher with the page fetched before the method is looked at.
extract_text_eager(url, method) ==
    LET r == IF method = "beautifulsoup"
             THEN call_extract_text_bs4(url)
             ELSE Return(Sentinel)
    IN  [r EXCEPT !.io = <<"Fetcher">> \o @]

\* The dispatcher with a cache, keyed by url, of the values earlier calls returned.
extract_text_cached(url, method) ==
    LET hits == {i \in 1..Len(log) : log[i].url = url /\ log[i].kind = "return"}
    IN  IF hits # {}
        THEN Return(log[CHOOSE i \in hits : \A j \in hits : i <= j].value)
        ELSE IF method = "beautifulsoup"
             THEN call_extract_text_bs4(url)
             ELSE Return(Sentinel)

\* The body of extract_text, lines 21-24.
extract_text(url, method) ==
    IF method = "beautifulsoup"
    THEN call_extract_text_bs4(url)
    ELSE Return(Sentinel)

\* ------------------------------------------------------------- the callers

\* A well-formed and a malformed url: extract_text never inspects either.
Urls == {"https://example.org/page", "not a url"}

Methods == {"beautifulsoup", "BeautifulSoup", "unknown"}

\* What the network would answer to a request made during the call.
Network == {"responds", "fails"}

Completed(url, given, method, net, out) ==
    [url |-> url, given |-> given, method |-> method, net |-> net,
     kind |-> out.kind, value |-> out.value, io |-> out.io]

\* extract_text(url, method): both arguments passed.
CallExplicit(url, method, net) ==
    /\ Len(log) < MaxCalls
    /\ log' = Append(log, Completed(url, TRUE, method, net, extract_text(url, method)))
    /\ UNCHANGED <<globals, text, cleaned, recleaned, stage>>

\* extract_text(url): method takes its default.
CallDefault(url, net) ==
    /\ Len(log) < MaxCalls
    /\ log' = Append(log, Completed(url, FALSE, DEFAULT_METHOD, net,
                                    extract_text(url, DEFAULT_METHOD)))
    /\ UNCHANGED <<globals, text, cleaned, recleaned, stage>>

RECURSIVE Texts(_)
Texts(n) ==
    IF n = 0 THEN {<<>>}
    ELSE LET shorter == Texts(n - 1)
         IN  shorter \cup {Append(s, c) : s \in {t \in shorter : Len(t) = n - 1}, c \in Chars}

\* The spec's example input: "  a   b\n\tc  ".
Example == <<" ", " ", "a", " ", " ", " ", "b", "\n", "\t", "c", " ", " ">>

Inputs == Texts(MaxLen) \cup {Example}

\* cleaned = clean_text(text)
Clean ==
    /\ stage = "input"
    /\ cleaned' = clean_text(text)
    /\ stage' = "cleaned"
    /\ UNCHANGED <<globals, log, text, recleaned>>

\* recleaned = clean_text(cleaned)
CleanAgain ==
    /\ stage = "cleaned"
    /\ recleaned' = clean_text(cleaned)
    /\ stage' = "recleaned"
    /\ UNCHANGED <<globals, log, text, cleaned>>

\* ---------------------------------------------------------- specifications

Init ==
    /\ globals = ModuleNamespace
    /\ log = <<>>
    /\ text = <<>>
    /\ cleaned = <<>>
    /\ recleaned = <<>>
    /\ stage = "idle"

Next ==
    \/ \E url \in Urls, method \in Methods, net \in Network : CallExplicit(url, method, net)
    \/ \E url \in Urls, net \in Network : CallDefault(url, net)

Spec == Init /\ [][Next]_vars

InitClean ==
    /\ globals = ModuleNamespace
    /\ log = <<>>
    /\ text \in Inputs
    /\ cleaned = <<>>
    /\ recleaned = <<>>
    /\ stage = "input"

NextClean == Clean \/ CleanAgain

SpecClean == InitClean /\ [][NextClean]_vars

\* ------------------------------------------------------------------ claims

Calls == 1..Len(log)

SameOutcome(c, d) == c.kind = d.kind /\ c.value = d.value /\ c.io = d.io

Count(io, who) == Cardinality({k \in 1..Len(io) : io[k] = who})

\* C1: for every url (malformed ones included) and every method other than
\* "beautifulsoup", extract_text returns exactly the sentinel string as a normal
\* return value, and the Fetcher is not invoked during the call.
C1_UnsupportedReturnsSentinel ==
    \A i \in Calls :
        log[i].method # "beautifulsoup" =>
            /\ log[i].kind = "return"
            /\ log[i].value = "Unsupported extraction method specified."
            /\ Count(log[i].io, "Fetcher") = 0

C1_Witness ==
    \E i \in Calls, j \in Calls :
        /\ log[i].url = "not a url" /\ log[i].method = "unknown"
        /\ log[j].url = "https://example.org/page" /\ log[j].method = "BeautifulSoup"
        /\ log[i].kind = "return" /\ log[j].kind = "return"

\* C2: a call with method "beautifulsoup" made while the network answers invokes
\* the Fetcher, then the Extractor, and returns the cleaned text.
C2_SupportedFetchesThenExtracts ==
    \A i \in Calls :
        (log[i].method = "beautifulsoup" /\ log[i].net = "responds") =>
            /\ log[i].io = <<"Fetcher", "Extractor">>
            /\ log[i].kind = "return"

\* C4: extract_text(url) ends as extract_text(url, method="beautifulsoup") does:
\* the same value returned or error raised, the same collaborators invoked.
C4_DefaultIsBeautifulsoup ==
    \A i \in Calls, j \in Calls :
        ( /\ ~log[i].given
          /\ log[j].given /\ log[j].method = "beautifulsoup"
          /\ log[i].url = log[j].url /\ log[i].net = log[j].net )
        => SameOutcome(log[i], log[j])

C4_Witness ==
    \E i \in Calls, j \in Calls :
        /\ ~log[i].given
        /\ log[j].given /\ log[j].method = "beautifulsoup"
        /\ log[i].url = log[j].url /\ log[i].net = log[j].net

\* C7: a call with method "beautifulsoup" made while the network fails ends with
\* the Fetcher's error raised to the caller, after one fetch and no extraction.
C7_NetworkErrorPropagates ==
    \A i \in Calls :
        (log[i].method = "beautifulsoup" /\ log[i].net = "fails") =>
            /\ log[i].kind = "raise"
            /\ log[i].value = "RequestException"
            /\ log[i].io = <<"Fetcher">>

\* C8: calls share no state: whatever calls came before, a call's outcome is
\* fixed by its url, its method and the network's answer, and the module's
\* namespace is what it was when the module was loaded.
C8_CallsAreIndependent ==
    /\ globals = ModuleNamespace
    /\ \A i \in Calls, j \in Calls :
           ( /\ log[i].url = log[j].url
             /\ log[i].method = log[j].method
             /\ log[i].net = log[j].net )
           => SameOutcome(log[i], log[j])

C8_Witness ==
    /\ Len(log) = 3
    /\ log[1].url = log[3].url /\ log[1].method = log[3].method /\ log[1].net = log[3].net
    /\ log[2].url = log[1].url /\ log[2].kind # log[1].kind

\* C9: every call with method "beautifulsoup" issues exactly one request (one
\* Fetcher invocation) and every other call issues none.
C9_OneRequestPerSupportedCall ==
    \A i \in Calls :
        Count(log[i].io, "Fetcher") = IF log[i].method = "beautifulsoup" THEN 1 ELSE 0

\* The maximal runs of non-whitespace characters of x, as <<first, last>> pairs.
Runs(x) ==
    {r \in (1..Len(x)) \X (1..Len(x)) :
        /\ r[1] <= r[2]
        /\ \A k \in r[1]..r[2] : ~IsSpace(x[k])
        /\ (r[1] = 1 \/ IsSpace(x[r[1] - 1]))
        /\ (r[2] = Len(x) \/ IsSpace(x[r[2] + 1]))}

\* The k-th of them, in the order they occur in x.
Token(x, k) ==
    LET r == CHOOSE r \in Runs(x) : Cardinality({q \in Runs(x) : q[1] < r[1]}) = k - 1
    IN  SubSeq(x, r[1], r[2])

RECURSIVE SpaceJoined(_, _)
\* The first n tokens of x with one space between neighbours.
SpaceJoined(x, n) ==
    IF n = 0 THEN <<>>
    ELSE IF n = 1 THEN Token(x, 1)
    ELSE SpaceJoined(x, n - 1) \o <<" ">> \o Token(x, n)

\* C5: clean_text(x) is the maximal non-whitespace tokens of x, in order, joined
\* by exactly one space; clean_text("  a   b\n\tc  ") is "a b c".
C5_TokensJoinedBySpace ==
    stage \in {"cleaned", "recleaned"} =>
        /\ cleaned = SpaceJoined(text, Cardinality(Runs(text)))
        /\ (text = Example => cleaned = <<"a", " ", "b", " ", "c">>)

C5_Witness ==
    /\ stage = "cleaned"
    /\ text = Example
    /\ cleaned = <<"a", " ", "b", " ", "c">>

\* C6: clean_text is idempotent: clean_text(clean_text(x)) = clean_text(x).
C6_Idempotent ==
    stage = "recleaned" => recleaned = cleaned

C6_Witness ==
    /\ stage = "recleaned"
    /\ cleaned # text
    /\ Len(cleaned) >= 3
    /\ recleaned = cleaned

NonSpace(x) == SelectSeq(x, LAMBDA c : ~IsSpace(c))

\* C10: clean_text only removes or replaces whitespace: the non-whitespace
\* characters of clean_text(x) are those of x, in order, and clean_text(x) is
\* empty exactly when x is empty or all whitespace.
C10_OnlyWhitespaceChanges ==
    stage \in {"cleaned", "recleaned"} =>
        /\ NonSpace(cleaned) = NonSpace(text)
        /\ (cleaned = <<>>) <=> (\A k \in 1..Len(text) : IsSpace(text[k]))

C10_Witness ==
    /\ stage = "cleaned"
    /\ \E k \in 1..Len(text) : IsSpace(text[k])
    /\ \E k \in 1..Len(text) : ~IsSpace(text[k])
    /\ cleaned # text
    /\ NonSpace(cleaned) = NonSpace(text)

\* Cleaned text: no two adjacent whitespace characters, none at either end.
IsCleanedText(y) ==
    /\ \A k \in 1..(Len(y) - 1) : ~(IsSpace(y[k]) /\ IsSpace(y[k + 1]))
    /\ y # <<>> => ~IsSpace(y[1]) /\ ~IsSpace(y[Len(y)])

\* Every result of clean_text is cleaned text.  (extract_text never passes
\* anything to clean_text: its supported branch raises at line 22.)
CleanTextResultIsCleaned ==
    stage \in {"cleaned", "recleaned"} => IsCleanedText(cleaned)

====
